---- MODULE Spec2Model ----
(***************************************************************************)
(* Trazamatic ETL pipeline: extraction (src/src/etl/extract.py), cleaning  *)
(* (src/src/etl/transform.py), aggregation and persistence                 *)
(* (src/src/etl/load.py) and the orchestration of one run                  *)
(* (src/src/etl.py).                                                       *)
(*                                                                         *)
(* Text is a sequence of one-character strings, so that trimming, casing,  *)
(* digit stripping and parsing are computed character by character.  A     *)
(* cell is a record with a kind k: "str" (text s), "num" (the rational     *)
(* n/d), "nan" (pandas NaN/None), "inf" (a float infinity of sign n),      *)
(* "ts" (a timestamp, n days since 1970-01-01) or "nat" (pandas NaT).      *)
(* A table is [dt, rows]: dt maps each column name to its dtype            *)
(* ("object", "number", "datetime"), rows is the sequence of rows, each a  *)
(* function from column name to cell; row i has index label i-1.           *)
(***************************************************************************)
EXTENDS Integers, Sequences, FiniteSets, TLC

VARIABLES
    pc,          \* position of the run / of the operation under study
    raw,         \* run_etl local raw_data: entity -> table
    clean,       \* run_etl local clean_data: entity -> table
    analytics,   \* run_etl local analytics: derived table name -> table
    processed,   \* data/processed: entity -> tag of the file stored there
    derived,     \* data/analytics: derived table name -> tag of the file
    phases,      \* phases started in the current run, in order
    failed,      \* what went wrong in the current run ("" when nothing)
    result,      \* value returned by run_etl: "none", "True" or "False"
    run,         \* number of the current run
    inp,         \* input of the operation under study
    out1,        \* its result
    out2         \* the result of applying it to out1

vars == <<pc, raw, clean, analytics, processed, derived, phases,
          failed, result, run, inp, out1, out2>>

----------------------------------------------------------------------------
(* Characters and text                                                     *)

Digits == <<"0", "1", "2", "3", "4", "5", "6", "7", "8", "9">>

LowerLetters == <<"a", "b", "c", "d", "e", "l", "m", "o", "p", "t", "x", "y">>

UpperLetters == <<"A", "B", "C", "D", "E", "L", "M", "O", "P", "T", "X", "Y">>

IndexOf(seq, c) ==
    IF \E i \in DOMAIN seq : seq[i] = c
    THEN CHOOSE i \in DOMAIN seq : seq[i] = c
    ELSE 0

IsDigit(c) == IndexOf(Digits, c) # 0

IsLower(c) == IndexOf(LowerLetters, c) # 0

IsUpper(c) == IndexOf(UpperLetters, c) # 0

IsCased(c) == IsLower(c) \/ IsUpper(c)

IsSpace(c) == c = " "

CharLower(c) == IF IsUpper(c) THEN LowerLetters[IndexOf(UpperLetters, c)] ELSE c

CharUpper(c) == IF IsLower(c) THEN UpperLetters[IndexOf(LowerLetters, c)] ELSE c

RECURSIVE LStrip(_)
LStrip(s) ==
    IF s # <<>> /\ IsSpace(Head(s)) THEN LStrip(Tail(s)) ELSE s

RECURSIVE RStrip(_)
RStrip(s) ==
    IF s # <<>> /\ IsSpace(s[Len(s)]) THEN RStrip(SubSeq(s, 1, Len(s) - 1)) ELSE s

\* str.strip()
PyStrip(s) == RStrip(LStrip(s))

\* str.lower()
PyLower(s) == [i \in DOMAIN s |-> CharLower(s[i])]

\* str.title(): a cased character is upper-cased after an uncased one (or at
\* the start) and lower-cased after a cased one.
PyTitle(s) ==
    [i \in DOMAIN s |->
        IF i > 1 /\ IsCased(s[i - 1]) THEN CharLower(s[i]) ELSE CharUpper(s[i])]

\* re.sub(r'\D', '', s)
RemoveNonDigits(s) == SelectSeq(s, IsDigit)

\* '@' in s
HasAt(s) == \E i \in DOMAIN s : s[i] = "@"

CountAt(s) == Cardinality({i \in DOMAIN s : s[i] = "@"})

FirstAt(s) == CHOOSE i \in DOMAIN s : s[i] = "@" /\ \A j \in 1..(i - 1) : s[j] # "@"

\* str(n) for a natural number n
RECURSIVE NatToStr(_)
NatToStr(n) ==
    IF n < 10 THEN <<Digits[n + 1]>>
    ELSE NatToStr(n \div 10) \o <<Digits[(n % 10) + 1]>>

\* value of a non-empty sequence of digits
RECURSIVE DigitsValue(_)
DigitsValue(s) ==
    IF s = <<>> THEN 0
    ELSE 10 * DigitsValue(SubSeq(s, 1, Len(s) - 1)) + (IndexOf(Digits, s[Len(s)]) - 1)

AllDigits(s) == s # <<>> /\ \A i \in DOMAIN s : IsDigit(s[i])

----------------------------------------------------------------------------
(* Cells                                                                   *)

Str(s) == [k |-> "str", s |-> s, n |-> 0, d |-> 1]

RECURSIVE Gcd(_, _)
Gcd(a, b) == IF b = 0 THEN a ELSE Gcd(b, a % b)

Abs(x) == IF x < 0 THEN -x ELSE x

\* the rational n/d (d > 0) in lowest terms
Num(n, d) ==
    LET g == Gcd(Abs(n), d)
    IN  [k |-> "num", s |-> <<>>, n |-> n \div g, d |-> d \div g]

IntCell(n) == [k |-> "num", s |-> <<>>, n |-> n, d |-> 1]

NaN == [k |-> "nan", s |-> <<>>, n |-> 0, d |-> 1]

Inf(sign) == [k |-> "inf", s |-> <<>>, n |-> sign, d |-> 1]

Ts(day) == [k |-> "ts", s |-> <<>>, n |-> day, d |-> 1]

NaT == [k |-> "nat", s |-> <<>>, n |-> 0, d |-> 1]

IsNull(x) == x.k \in {"nan", "nat"}

\* The text of an integer literal, surrounding blanks allowed: the value, or
\* NaN when the text is not a number.
ParseNumber(s) ==
    LET t == PyStrip(s)
        neg == t # <<>> /\ Head(t) = "-"
        body == IF neg THEN Tail(t) ELSE t
    IN  IF AllDigits(body)
        THEN IntCell(IF neg THEN -DigitsValue(body) ELSE DigitsValue(body))
        ELSE NaN

----------------------------------------------------------------------------
(* Tables and column operations                                            *)

Raised(e) == [err |-> e]

IsRaised(t) == "err" \in DOMAIN t

HasCol(t, c) == c \in DOMAIN t.dt

Column(t, c) == [i \in DOMAIN t.rows |-> t.rows[i][c]]

NRows(t) == Len(t.rows)

\* replace column c by f (one cell per row) with dtype ty, adding it if absent
SetCol(t, c, f, ty) ==
    [dt   |-> [x \in DOMAIN t.dt \cup {c} |-> IF x = c THEN ty ELSE t.dt[x]],
     rows |-> [i \in DOMAIN t.rows |->
                 [x \in DOMAIN t.dt \cup {c} |->
                     IF x = c THEN f[i] ELSE t.rows[i][x]]]]

\* Series.str.<method>: defined on an object column only (AttributeError
\* otherwise); a cell that is not text becomes NaN.
StrCell(x, Op(_)) == IF x.k = "str" THEN Str(Op(x.s)) ELSE NaN

StrMethod(t, c, Op(_)) ==
    IF t.dt[c] # "object" THEN Raised("AttributeError")
    ELSE SetCol(t, c, [i \in DOMAIN t.rows |-> StrCell(t.rows[i][c], Op)], "object")

\* pd.to_numeric(errors='coerce') of one cell
ToNumericCell(x) ==
    CASE x.k = "str" -> ParseNumber(x.s)
      [] x.k \in {"num", "inf"} -> x
      [] OTHER -> NaN

ToNumeric(t, c) ==
    SetCol(t, c, [i \in DOMAIN t.rows |-> ToNumericCell(t.rows[i][c])], "number")

\* Series.fillna(0)
FillNa0(t, c) ==
    SetCol(t, c, [i \in DOMAIN t.rows |->
                    IF IsNull(t.rows[i][c]) THEN IntCell(0) ELSE t.rows[i][c]], t.dt[c])

\* apply F to t unless t is already an exception
Then(t, F(_)) == IF IsRaised(t) THEN t ELSE F(t)

\* DataFrame.rename(columns=m): m maps old names to new ones (no table of the
\* model carries both an old name and its new name).
RenameCols(t, m) ==
    LET new(c) == IF c \in DOMAIN m THEN m[c] ELSE c
        old(c2) == CHOOSE c \in DOMAIN t.dt : new(c) = c2
        names == {new(c) : c \in DOMAIN t.dt}
    IN  [dt   |-> [c2 \in names |-> t.dt[old(c2)]],
         rows |-> [i \in DOMAIN t.rows |-> [c2 \in names |-> t.rows[i][old(c2)]]]]

\* Series.duplicated(keep=False): the positions whose value occurs more than
\* once (missing values count as equal to each other)
Duplicated(col) == {i \in DOMAIN col : \E j \in DOMAIN col : j # i /\ col[j] = col[i]}

SetMin(S) == CHOOSE x \in S : \A y \in S : x <= y

\* the members of the sequence order that are in S, in that order
InOrder(order, S) == SelectSeq(order, LAMBDA x : x \in S)

----------------------------------------------------------------------------
(* Extractor: src/src/etl/extract.py                                       *)

\* pd.read_csv of a file with header cols and rows of text fields (<<>> is an
\* empty field).  A column whose fields are all numeric or empty is numeric;
\* any other column is an object column of text, empty fields being NaN.
\* A file without data rows has object columns.
ReadCsv(csv) ==
    LET numeric(c) ==
            /\ csv.rows # <<>>
            /\ \A i \in DOMAIN csv.rows :
                   csv.rows[i][c] = <<>> \/ ParseNumber(csv.rows[i][c]).k = "num"
        cell(c, s) ==
            IF s = <<>> THEN NaN
            ELSE IF numeric(c) THEN ParseNumber(s) ELSE Str(s)
    IN  [dt   |-> [c \in csv.cols |-> IF numeric(c) THEN "number" ELSE "object"],
         rows |-> [i \in DOMAIN csv.rows |->
                     [c \in csv.cols |-> cell(c, csv.rows[i][c])]]]

Entities ==
    <<"clientes", "ordenes_produccion", "productos", "materiales", "empleados",
      "detalles_orden", "uso_materiales">>

EntitySet == {Entities[i] : i \in DOMAIN Entities}

None == [none |-> TRUE]

IsNone(x) == "none" \in DOMAIN x

\* _load_csv without the second handler (lines 52-54): only a missing file is
\* turned into None
LoadCsvMissingOnly(file) ==
    IF file.st = "ok" THEN ReadCsv(file.csv)
    ELSE IF file.st = "missing" THEN None
    ELSE Raised("ParserError")

\* A file of the raw directory is [st, csv]: st is "ok" (pd.read_csv returns
\* the table of csv), "missing" (FileNotFoundError) or "corrupt" (any other
\* exception of pd.read_csv: bad encoding, no columns, a broken row).
_load_csv(file) ==
    IF file.st = "ok" THEN ReadCsv(file.csv) ELSE None

\* lines 95-106: the seven loads, then the filter on None
extract_all(dir) ==
    LET datasets == [e \in EntitySet |-> _load_csv(dir[e])]
        loaded == {e \in EntitySet : ~IsNone(datasets[e])}
        bad == {i \in DOMAIN Entities : IsRaised(datasets[Entities[i]])}
    IN  IF bad # {} THEN datasets[Entities[SetMin(bad)]]
        ELSE [e \in loaded |-> datasets[e]]

----------------------------------------------------------------------------
(* Transformer: src/src/etl/transform.py                                   *)

ClientesRename ==
    [contacto_telefono |-> "telefono", contacto_email |-> "email",
     contacto_nombre |-> "nombre_contacto"]

\* lines 43-46: the phone column, when present, is trimmed and stripped of
\* every non-digit
CleanTelefono(t) ==
    IF ~HasCol(t, "telefono") THEN t
    ELSE Then(StrMethod(t, "telefono", PyStrip),
              LAMBDA u : StrMethod(u, "telefono", RemoveNonDigits))

\* lines 53-57: the rows of a shared email except the first such row of the
\* table, in index order
RowsToSuffix(t) ==
    LET dup == Duplicated(Column(t, "email"))
    IN  IF dup = {} THEN {} ELSE dup \ {SetMin(dup)}

\* lines 54-57 for the row of index label idx: TypeError when the value is not
\* text, ValueError when it holds more than one '@', unchanged without '@'
SuffixedEmail(x, idx) ==
    IF x.k # "str" THEN Raised("TypeError")
    ELSE IF ~HasAt(x.s) THEN x
    ELSE IF CountAt(x.s) > 1 THEN Raised("ValueError")
    ELSE LET a == FirstAt(x.s)
         IN  Str(SubSeq(x.s, 1, a - 1) \o NatToStr(idx) \o <<"@">>
                 \o SubSeq(x.s, a + 1, Len(x.s)))

\* lines 48-57
DedupEmails(t) ==
    IF ~HasCol(t, "email") THEN Raised("KeyError")
    ELSE LET todo == RowsToSuffix(t)
             new == [i \in DOMAIN t.rows |->
                        IF i \in todo THEN SuffixedEmail(t.rows[i]["email"], i - 1)
                        ELSE t.rows[i]["email"]]
             bad == {i \in todo : IsRaised(new[i])}
         IN  IF bad # {} THEN new[SetMin(bad)]
             ELSE SetCol(t, "email", new, t.dt["email"])

\* lines 59-62: every object column is trimmed
StripObjectColumns(t) ==
    [dt   |-> t.dt,
     rows |-> [i \in DOMAIN t.rows |->
                 [c \in DOMAIN t.dt |->
                     IF t.dt[c] = "object" THEN StrCell(t.rows[i][c], PyStrip)
                     ELSE t.rows[i][c]]]]

transform_clientes(df) ==
    Then(Then(CleanTelefono(RenameCols(df, ClientesRename)), DedupEmails),
         StripObjectColumns)

\* Days from 1970-01-01 to the civil date y-m-d
DaysFromCivil(y, m, d) ==
    LET yy == IF m <= 2 THEN y - 1 ELSE y
        era == yy \div 400
        yoe == yy - era * 400
        mp == IF m > 2 THEN m - 3 ELSE m + 9
        doy == (153 * mp + 2) \div 5 + d - 1
        doe == yoe * 365 + yoe \div 4 - yoe \div 100 + doy
    IN  era * 146097 + doe - 719468

IsLeap(y) == (y % 4 = 0 /\ y % 100 # 0) \/ y % 400 = 0

DaysInMonth(y, m) ==
    IF m = 2 THEN (IF IsLeap(y) THEN 29 ELSE 28)
    ELSE IF m \in {4, 6, 9, 11} THEN 30 ELSE 31

\* A date text YYYY-MM-DD naming a real day: its timestamp; any other text of
\* the model (the model's date texts are ISO dates or words): NaT.
ParseDate(s) ==
    IF /\ Len(s) = 10
       /\ s[5] = "-" /\ s[8] = "-"
       /\ \A i \in {1, 2, 3, 4, 6, 7, 9, 10} : IsDigit(s[i])
    THEN LET y == DigitsValue(SubSeq(s, 1, 4))
             m == DigitsValue(SubSeq(s, 6, 7))
             d == DigitsValue(SubSeq(s, 9, 10))
         IN  IF m \in 1..12 /\ d >= 1 /\ d <= DaysInMonth(y, m)
             THEN Ts(DaysFromCivil(y, m, d)) ELSE NaT
    ELSE NaT

\* pd.to_datetime(errors='coerce') of one cell; a number counts nanoseconds
\* from 1970-01-01 (the model keeps the day only)
ToDatetimeCell(x) ==
    CASE x.k = "str" -> ParseDate(x.s)
      [] x.k = "ts" -> x
      [] x.k = "num" -> Ts(IF x.n >= 0 THEN 0 ELSE -1)
      [] OTHER -> NaT

ToDatetime(t, c) ==
    SetCol(t, c, [i \in DOMAIN t.rows |-> ToDatetimeCell(t.rows[i][c])], "datetime")

\* the difference taken the other way round
DaysBetweenReversed(a, b) ==
    IF a.k = "ts" /\ b.k = "ts" THEN IntCell(b.n - a.n) ELSE NaN

\* (a - b).dt.days
DaysBetweenCell(a, b) ==
    IF a.k = "ts" /\ b.k = "ts" THEN IntCell(a.n - b.n) ELSE NaN

\* a / b on two float cells of the model (b finite or missing)
DivideCell(a, b) ==
    CASE a.k = "nan" \/ b.k = "nan" -> NaN
      [] a.k = "inf" -> IF b.n = 0 THEN a ELSE Inf(IF b.n > 0 THEN a.n ELSE -a.n)
      [] b.n = 0 /\ a.n = 0 -> NaN
      [] b.n = 0 -> Inf(IF a.n > 0 THEN 1 ELSE -1)
      [] b.n > 0 -> Num(a.n * b.d, a.d * b.n)
      [] OTHER -> Num(-(a.n * b.d), a.d * (-b.n))

\* "if c in df.columns: df[c] = F(df[c])"
OnCol(t, c, F(_, _)) ==
    IF IsRaised(t) \/ ~HasCol(t, c) THEN t ELSE F(t, c)

StripTitle(t, c) ==
    Then(StrMethod(t, c, PyStrip), LAMBDA u : StrMethod(u, c, PyTitle))

StripLower(t, c) ==
    Then(StrMethod(t, c, PyStrip), LAMBDA u : StrMethod(u, c, PyLower))

StripOnly(t, c) == StrMethod(t, c, PyStrip)

NumericOrZero(t, c) == FillNa0(ToNumeric(t, c), c)

\* lines 89-93
AddDuracion(t) ==
    IF HasCol(t, "fecha_orden") /\ HasCol(t, "fecha_completado")
    THEN SetCol(t, "duracion_dias",
                [i \in DOMAIN t.rows |->
                    DaysBetweenCell(t.rows[i]["fecha_completado"],
                                    t.rows[i]["fecha_orden"])], "number")
    ELSE t

\* lines 80-87; the date columns (the names containing 'fecha') of the order
\* table are fecha_orden and fecha_completado
transform_ordenes_produccion(df) ==
    Then(OnCol(OnCol(OnCol(df, "fecha_orden", ToDatetime),
                        "fecha_completado", ToDatetime),
                  "estado", StripTitle),
         AddDuracion)

\* a price filter that removes negative prices only
InvalidPriceNegativeOnly(x) == x.k = "num" /\ x.n < 0

\* lines 119-124: rows whose price is <= 0 or missing are removed
InvalidPrice(x) == IsNull(x) \/ (x.k = "num" /\ x.n <= 0) \/ (x.k = "inf" /\ x.n < 0)

DropInvalidPrices(t) ==
    IF ~HasCol(t, "precio") THEN t
    ELSE LET keep(r) == ~InvalidPrice(r["precio"])
         IN  [dt |-> t.dt, rows |-> SelectSeq(t.rows, keep)]

transform_productos(df) ==
    Then(OnCol(OnCol(df, "nombre_producto", StripOnly), "precio", ToNumeric),
         DropInvalidPrices)

\* line 123: the number of removed products written to the log,
\* invalid_prices.sum() over the numeric price column (nothing is removed
\* and nothing is logged without a price column)
InvalidPriceCount(df) ==
    IF ~HasCol(df, "precio") THEN 0
    ELSE Cardinality({i \in DOMAIN df.rows :
                         InvalidPrice(ToNumericCell(df.rows[i]["precio"]))})

transform_materiales(df) ==
    OnCol(OnCol(OnCol(df, "tipo", StripTitle), "unidad_medida", StripLower),
          "cantidad_disponible", NumericOrZero)

transform_empleados(df) ==
    OnCol(OnCol(OnCol(df, "nombre", StripOnly), "cargo", StripTitle),
          "email", StripLower)

\* lines 207-209 with the quotient stored in 'subtotal' itself
AddPrecioUnitarioInPlace(t) ==
    IF HasCol(t, "cantidad") /\ HasCol(t, "subtotal")
    THEN SetCol(t, "subtotal",
                [i \in DOMAIN t.rows |->
                    DivideCell(t.rows[i]["subtotal"], t.rows[i]["cantidad"])],
                "number")
    ELSE t

\* lines 207-209
AddPrecioUnitario(t) ==
    IF HasCol(t, "cantidad") /\ HasCol(t, "subtotal")
    THEN SetCol(t, "precio_unitario",
                [i \in DOMAIN t.rows |->
                    DivideCell(t.rows[i]["subtotal"], t.rows[i]["cantidad"])],
                "number")
    ELSE t

transform_detalles_orden(df) ==
    AddPrecioUnitario(OnCol(OnCol(df, "cantidad", ToNumeric), "subtotal", ToNumeric))

transform_uso_materiales(df) ==
    OnCol(df, "cantidad_usada", NumericOrZero)

\* lines 253-278: the cleaning function of each entity
TransformOf(e, df) ==
    CASE e = "clientes" -> transform_clientes(df)
      [] e = "ordenes_produccion" -> transform_ordenes_produccion(df)
      [] e = "productos" -> transform_productos(df)
      [] e = "materiales" -> transform_materiales(df)
      [] e = "empleados" -> transform_empleados(df)
      [] e = "detalles_orden" -> transform_detalles_orden(df)
      [] e = "uso_materiales" -> transform_uso_materiales(df)

\* transform_all without its last "if" statement (lines 275-278)
TransformAllButLast(datasets) ==
    LET todo == InOrder(SubSeq(Entities, 1, Len(Entities) - 1), DOMAIN datasets)
        tab == [i \in DOMAIN todo |-> TransformOf(todo[i], datasets[todo[i]])]
        bad == {i \in DOMAIN todo : IsRaised(tab[i])}
    IN  IF bad # {} THEN tab[SetMin(bad)]
        ELSE [e \in {todo[i] : i \in DOMAIN todo} |->
                 tab[CHOOSE i \in DOMAIN todo : todo[i] = e]]

\* lines 251-284: every entity present is cleaned, in the order of the seven
\* "if" statements; the first exception ends the call
transform_all(datasets) ==
    LET todo == InOrder(Entities, DOMAIN datasets)
        tab == [i \in DOMAIN todo |-> TransformOf(todo[i], datasets[todo[i]])]
        bad == {i \in DOMAIN todo : IsRaised(tab[i])}
    IN  IF bad # {} THEN tab[SetMin(bad)]
        ELSE [e \in {todo[i] : i \in DOMAIN todo} |->
                 tab[CHOOSE i \in DOMAIN todo : todo[i] = e]]

----------------------------------------------------------------------------
(* Joins and aggregation as pandas computes them                           *)

\* order of the characters of the model (their code points)
CharOrder ==
    <<" ", "-">> \o Digits \o <<"@">> \o UpperLetters \o LowerLetters

RECURSIVE TextLess(_, _)
TextLess(a, b) ==
    IF b = <<>> THEN FALSE
    ELSE IF a = <<>> THEN TRUE
    ELSE IF Head(a) = Head(b) THEN TextLess(Tail(a), Tail(b))
    ELSE IndexOf(CharOrder, Head(a)) < IndexOf(CharOrder, Head(b))

\* a < b for two non-null cells of one column
CellLess(a, b) ==
    CASE a.k = "str" /\ b.k = "str" -> TextLess(a.s, b.s)
      [] a.k = "inf" /\ b.k = "inf" -> a.n < b.n
      [] a.k = "inf" -> a.n < 0
      [] b.k = "inf" -> b.n > 0
      [] OTHER -> a.n * b.d < b.n * a.d

\* the cells of S in ascending order
RECURSIVE SortCells(_)
SortCells(S) ==
    IF S = {} THEN <<>>
    ELSE LET m == CHOOSE x \in S : \A y \in S \ {x} : CellLess(x, y)
         IN  <<m>> \o SortCells(S \ {m})

\* df[cols]
SelectCols(t, cols) ==
    IF ~(cols \subseteq DOMAIN t.dt) THEN Raised("KeyError")
    ELSE [dt   |-> [c \in cols |-> t.dt[c]],
          rows |-> [i \in DOMAIN t.rows |-> [c \in cols |-> t.rows[i][c]]]]

RECURSIVE Flatten(_)
Flatten(ss) == IF ss = <<>> THEN <<>> ELSE Head(ss) \o Flatten(Tail(ss))

\* left.merge(right, left_on=lk, right_on=rk, how='left'): every left row in
\* order, once per matching right row (in right order), or once with the
\* right columns missing.  Missing keys match each other.  Joining a text key
\* with a numeric one raises ValueError unless one side has no rows.  (No two
\* tables joined in the model share a column other than the key.)
MergeLeft(left, right, lk, rk) ==
    IF IsRaised(left) THEN left
    ELSE IF IsRaised(right) THEN right
    ELSE IF ~HasCol(left, lk) \/ ~HasCol(right, rk) THEN Raised("KeyError")
    ELSE IF left.rows # <<>> /\ right.rows # <<>> /\ left.dt[lk] # right.dt[rk]
         THEN Raised("ValueError")
    ELSE LET cols == DOMAIN left.dt \cup DOMAIN right.dt
             join(l, r) == [c \in cols |-> IF c \in DOMAIN left.dt THEN l[c] ELSE r[c]]
             alone(l) == [c \in cols |-> IF c \in DOMAIN left.dt THEN l[c] ELSE NaN]
             hits(l) == SelectSeq(right.rows, LAMBDA r : r[rk] = l[lk])
             of(l) == IF hits(l) = <<>> THEN <<alone(l)>>
                      ELSE [j \in DOMAIN hits(l) |-> join(l, hits(l)[j])]
         IN  [dt   |-> [c \in cols |->
                          IF c \in DOMAIN left.dt THEN left.dt[c] ELSE right.dt[c]],
              rows |-> Flatten([i \in DOMAIN left.rows |-> of(left.rows[i])])]

\* the group keys of groupby(k): the distinct non-null values, ascending
GroupKeys(t, k) ==
    SortCells({t.rows[i][k] : i \in {j \in DOMAIN t.rows : ~IsNull(t.rows[j][k])}})

\* the cells of column c in the rows of group v
GroupCells(t, k, v, c) ==
    LET rs == SelectSeq(t.rows, LAMBDA r : r[k] = v)
    IN  [i \in DOMAIN rs |-> rs[i][c]]

NonNull(cells) == SelectSeq(cells, LAMBDA x : ~IsNull(x))

\* a + b on two float cells
AddCell(a, b) ==
    CASE a.k = "nan" \/ b.k = "nan" -> NaN
      [] a.k = "inf" /\ b.k = "inf" -> IF a.n = b.n THEN a ELSE NaN
      [] a.k = "inf" -> a
      [] b.k = "inf" -> b
      [] OTHER -> Num(a.n * b.d + b.n * a.d, a.d * b.d)

\* 'sum': the sum of the non-null cells (0 for none)
RECURSIVE SumCells(_)
SumCells(cells) ==
    IF cells = <<>> THEN IntCell(0)
    ELSE IF IsNull(Head(cells)) THEN SumCells(Tail(cells))
    ELSE AddCell(Head(cells), SumCells(Tail(cells)))

AggSum(cells) == SumCells(cells)

\* 'count': the number of non-null cells
AggCount(cells) == IntCell(Len(NonNull(cells)))

\* 'first': the first non-null cell
AggFirst(cells) == IF NonNull(cells) = <<>> THEN NaN ELSE Head(NonNull(cells))

\* 'min' and 'max' of a datetime column: over the non-null cells, NaT for none
AggMin(cells) ==
    LET S == {NonNull(cells)[i] : i \in DOMAIN NonNull(cells)}
    IN  IF S = {} THEN NaT ELSE CHOOSE x \in S : \A y \in S : y.n >= x.n

AggMax(cells) ==
    LET S == {NonNull(cells)[i] : i \in DOMAIN NonNull(cells)}
    IN  IF S = {} THEN NaT ELSE CHOOSE x \in S : \A y \in S : y.n <= x.n

TxtCompletado == <<"C", "o", "m", "p", "l", "e", "t", "a", "d", "o">>

\* lambda x: (x == 'Completado').sum()
CountCompletado(cells) ==
    IntCell(Len(SelectSeq(cells, LAMBDA x : x.k = "str" /\ x.s = TxtCompletado)))

\* a * 100
Times100(a) ==
    CASE a.k = "num" -> Num(a.n * 100, a.d)
      [] OTHER -> a

\* round(a, 2): to the nearest hundredth, a tie going to the even hundredth
Round2(a) ==
    IF a.k # "num" THEN a
    ELSE LET num == a.n * 100
             q == num \div a.d
             r2 == 2 * (num % a.d)
             up == r2 > a.d \/ (r2 = a.d /\ q % 2 = 1)
         IN  Num(IF up THEN q + 1 ELSE q, 100)

\* one aggregation function of DataFrame.agg applied to the cells of a group
Agg(fn, cells) ==
    CASE fn = "sum" -> AggSum(cells)
      [] fn = "count" -> AggCount(cells)
      [] fn = "first" -> AggFirst(cells)
      [] fn = "min" -> AggMin(cells)
      [] fn = "max" -> AggMax(cells)
      [] fn = "completado" -> CountCompletado(cells)

\* t.groupby(k).agg(...).reset_index() with the result columns renamed: how
\* maps each result column to <<source column, function>>.  One row per group
\* key, ascending; rows whose key is missing belong to no group.
GroupAgg(t, k, how) ==
    IF IsRaised(t) THEN t
    ELSE IF ~HasCol(t, k) \/ \E o \in DOMAIN how : ~HasCol(t, how[o][1])
         THEN Raised("KeyError")
    ELSE LET keys == GroupKeys(t, k)
             cols == DOMAIN how \cup {k}
             ty(c) == IF c = k THEN t.dt[k]
                      ELSE IF how[c][2] = "first" THEN t.dt[how[c][1]]
                      ELSE IF how[c][2] \in {"min", "max"} THEN "datetime"
                      ELSE "number"
         IN  [dt   |-> [c \in cols |-> ty(c)],
              rows |-> [i \in DOMAIN keys |->
                          [c \in cols |->
                              IF c = k THEN keys[i]
                              ELSE Agg(how[c][2],
                                       GroupCells(t, k, keys[i], how[c][1]))]]]

\* df[c] = df[a] / df[b]
AddRatio(t, c, a, b) ==
    IF IsRaised(t) THEN t
    ELSE SetCol(t, c, [i \in DOMAIN t.rows |-> DivideCell(t.rows[i][a], t.rows[i][b])],
                "number")

----------------------------------------------------------------------------
(* Aggregator / Loader: src/src/etl/load.py                                *)

_create_ordenes_completas(ordenes, clientes, empleados) ==
    LET df1 == MergeLeft(ordenes,
                         SelectCols(clientes, {"id_cliente", "nombre_empresa", "ciudad"}),
                         "id_cliente", "id_cliente")
        df2 == MergeLeft(df1, SelectCols(empleados, {"id_empleado", "nombre", "cargo"}),
                         "id_empleado_responsable", "id_empleado")
    IN  Then(df2, LAMBDA t : RenameCols(t, [nombre |-> "nombre_empleado",
                                            cargo |-> "cargo_empleado"]))

_create_ventas_por_producto(detalles, productos, ordenes) ==
    LET df1 == MergeLeft(detalles, SelectCols(productos, {"id_producto", "nombre_producto"}),
                         "id_producto", "id_producto")
        df2 == MergeLeft(df1, SelectCols(ordenes, {"id_orden", "fecha_orden", "estado"}),
                         "id_orden", "id_orden")
        ventas == GroupAgg(df2, "id_producto",
                           [nombre_producto |-> <<"nombre_producto", "first">>,
                            cantidad_total |-> <<"cantidad", "sum">>,
                            ingresos_totales |-> <<"subtotal", "sum">>,
                            num_ordenes |-> <<"id_orden", "count">>])
    IN  AddRatio(ventas, "ticket_promedio", "ingresos_totales", "num_ordenes")

_create_uso_materiales_agregado(uso, materiales, ordenes) ==
    LET df1 == MergeLeft(uso,
                         SelectCols(materiales, {"id_material", "nombre_material", "tipo",
                                                 "cantidad_disponible"}),
                         "id_material", "id_material")
        df2 == MergeLeft(df1, SelectCols(ordenes, {"id_orden", "fecha_orden"}),
                         "id_orden", "id_orden")
        agg == GroupAgg(df2, "id_material",
                        [nombre_material |-> <<"nombre_material", "first">>,
                         tipo |-> <<"tipo", "first">>,
                         cantidad_disponible |-> <<"cantidad_disponible", "first">>,
                         cantidad_total_usada |-> <<"cantidad_usada", "sum">>,
                         num_ordenes |-> <<"id_orden", "count">>])
    IN  Then(AddRatio(agg, "tasa_rotacion", "cantidad_total_usada", "cantidad_disponible"),
             LAMBDA t : FillNa0(t, "tasa_rotacion"))

_create_metricas_por_cliente(ordenes, detalles, clientes) ==
    LET totales_orden == GroupAgg(detalles, "id_orden",
                                  [total_orden |-> <<"subtotal", "sum">>])
        df == MergeLeft(ordenes, totales_orden, "id_orden", "id_orden")
        metricas == GroupAgg(df, "id_cliente",
                             [num_ordenes |-> <<"id_orden", "count">>,
                              ingresos_totales |-> <<"total_orden", "sum">>,
                              primera_orden |-> <<"fecha_orden", "min">>,
                              ultima_orden |-> <<"fecha_orden", "max">>])
        joined == MergeLeft(metricas,
                            SelectCols(clientes, {"id_cliente", "nombre_empresa", "ciudad"}),
                            "id_cliente", "id_cliente")
    IN  AddRatio(joined, "ticket_promedio", "ingresos_totales", "num_ordenes")

_create_productividad_empleados(ordenes, empleados) ==
    LET grouped == GroupAgg(ordenes, "id_empleado_responsable",
                            [total_ordenes |-> <<"id_orden", "count">>,
                             ordenes_completadas |-> <<"estado", "completado">>])
        prod == Then(grouped,
                     LAMBDA t : RenameCols(t, [id_empleado_responsable |-> "id_empleado"]))
        joined == MergeLeft(prod, SelectCols(empleados, {"id_empleado", "nombre", "cargo"}),
                            "id_empleado", "id_empleado")
    IN  Then(AddRatio(joined, "tasa_completitud", "ordenes_completadas", "total_ordenes"),
             LAMBDA t : SetCol(t, "tasa_completitud",
                               [i \in DOMAIN t.rows |->
                                   Round2(Times100(t.rows[i]["tasa_completitud"]))],
                               "number"))

DerivedNames ==
    <<"ordenes_completas", "ventas_por_producto", "uso_materiales_agregado",
      "metricas_por_cliente", "productividad_empleados">>

\* the conditions of lines 69-101 with one condition for all five tables
RequiresEverything(d) ==
    {"clientes", "ordenes_produccion", "productos", "materiales", "empleados",
     "detalles_orden", "uso_materiales"}

\* lines 69, 77, 85, 93, 101: the entities each derived table is built from
Requires(d) ==
    CASE d = "ordenes_completas" -> {"ordenes_produccion", "clientes", "empleados"}
      [] d = "ventas_por_producto" -> {"detalles_orden", "productos", "ordenes_produccion"}
      [] d = "uso_materiales_agregado" ->
            {"uso_materiales", "materiales", "ordenes_produccion"}
      [] d = "metricas_por_cliente" -> {"ordenes_produccion", "detalles_orden", "clientes"}
      [] d = "productividad_empleados" -> {"ordenes_produccion", "empleados"}

\* lines 70-74, 78-82, 86-90, 94-98, 102-105
Build(d, ds) ==
    CASE d = "ordenes_completas" ->
            _create_ordenes_completas(ds["ordenes_produccion"], ds["clientes"],
                                      ds["empleados"])
      [] d = "ventas_por_producto" ->
            _create_ventas_por_producto(ds["detalles_orden"], ds["productos"],
                                        ds["ordenes_produccion"])
      [] d = "uso_materiales_agregado" ->
            _create_uso_materiales_agregado(ds["uso_materiales"], ds["materiales"],
                                            ds["ordenes_produccion"])
      [] d = "metricas_por_cliente" ->
            _create_metricas_por_cliente(ds["ordenes_produccion"], ds["detalles_orden"],
                                         ds["clientes"])
      [] d = "productividad_empleados" ->
            _create_productividad_empleados(ds["ordenes_produccion"], ds["empleados"])

\* create_analytics_tables with the fourth table stored under the key of the
\* second (line 94 assigning to analytics['ventas_por_producto'])
CreateAnalyticsWrongSlot(datasets) ==
    LET todo == InOrder(DerivedNames, {d \in {DerivedNames[i] : i \in DOMAIN DerivedNames} :
                                          Requires(d) \subseteq DOMAIN datasets})
        tab == [i \in DOMAIN todo |-> Build(todo[i], datasets)]
        bad == {i \in DOMAIN todo : IsRaised(tab[i])}
        slot(d) == IF d = "metricas_por_cliente" THEN "ventas_por_producto" ELSE d
        last(k) == CHOOSE i \in DOMAIN todo :
                       /\ slot(todo[i]) = k
                       /\ \A j \in DOMAIN todo : slot(todo[j]) = k => j <= i
    IN  IF bad # {} THEN tab[SetMin(bad)]
        ELSE [k \in {slot(todo[i]) : i \in DOMAIN todo} |-> tab[last(k)]]

\* The mapping of the derived tables whose entities are all present, or the
\* exception of the first builder that raises.
create_analytics_tables(datasets) ==
    LET todo == InOrder(DerivedNames, {d \in {DerivedNames[i] : i \in DOMAIN DerivedNames} :
                                          Requires(d) \subseteq DOMAIN datasets})
        tab == [i \in DOMAIN todo |-> Build(todo[i], datasets)]
        bad == {i \in DOMAIN todo : IsRaised(tab[i])}
    IN  IF bad # {} THEN tab[SetMin(bad)]
        ELSE [d \in {todo[i] : i \in DOMAIN todo} |->
                 tab[CHOOSE i \in DOMAIN todo : todo[i] = d]]

----------------------------------------------------------------------------
(* Sample texts                                                            *)

TxtAX == <<"a", "@", "x">>

TxtSpAX == <<" ", "a", "@", "x">>

TxtA1X == <<"a", "1", "@", "x">>

TxtBY == <<"b", "@", "y">>

TxtNoAt == <<"a", "b">>

TxtTwoAt == <<"a", "@", "b", "@", "x">>

TxtPhoneDash == <<"3", "-", "1", " ">>

TxtPhoneDigits == <<"3", "1">>

TxtEmpresa == <<" ", "A", "b", " ">>

Empty == <<>>

----------------------------------------------------------------------------
(* Cleaning of the Customer table, applied once and then to its own output *)

MaxClientes == 3

EmailTexts == {TxtAX, TxtSpAX, TxtA1X, TxtBY, TxtNoAt, TxtTwoAt, Empty}

PhoneTexts == {TxtPhoneDash, TxtPhoneDigits}

ClientesCols ==
    {"id_cliente", "nombre_empresa", "ciudad", "contacto_telefono", "contacto_email"}

\* clientes.csv with one row per (phone, email) pair of fields
ClientesCsv(fields) ==
    [cols |-> ClientesCols,
     rows |-> [i \in DOMAIN fields |->
                 [c \in ClientesCols |->
                     CASE c = "id_cliente" -> NatToStr(i)
                       [] c = "nombre_empresa" -> TxtEmpresa
                       [] c = "ciudad" -> TxtNoAt
                       [] c = "contacto_telefono" -> fields[i][1]
                       [] c = "contacto_email" -> fields[i][2]]]]

NoTable == [dt |-> << >>, rows |-> << >>]

\* the variables of the pipeline, unused while one operation is studied
PipelineIdle ==
    /\ raw = << >>
    /\ clean = << >>
    /\ analytics = << >>
    /\ processed = << >>
    /\ derived = << >>
    /\ phases = << >>
    /\ failed = ""
    /\ result = "none"
    /\ run = 0

pipelineVars == <<raw, clean, analytics, processed, derived, phases,
                  failed, result, run>>

InitClientes ==
    /\ PipelineIdle
    /\ pc = "raw"
    /\ \E n \in 1..MaxClientes :
           \E fields \in [1..n -> PhoneTexts \X EmailTexts] :
               inp = ReadCsv(ClientesCsv(fields))
    /\ out1 = NoTable
    /\ out2 = NoTable

ApplyClientes ==
    /\ pc = "raw"
    /\ out1' = transform_clientes(inp)
    /\ pc' = IF IsRaised(out1') THEN "raised" ELSE "once"
    /\ UNCHANGED <<inp, out2, pipelineVars>>

ReapplyClientes ==
    /\ pc = "once"
    /\ out2' = transform_clientes(out1)
    /\ pc' = IF IsRaised(out2') THEN "raised2" ELSE "twice"
    /\ UNCHANGED <<inp, out1, pipelineVars>>

NextClientes == ApplyClientes \/ ReapplyClientes

SpecClientes == InitClientes /\ [][NextClientes]_vars

\* C8: after transform_clientes, no two rows of the cleaned table have the
\* same email value.
C8_EmailsUnique ==
    pc = "once" =>
        \A i, j \in DOMAIN out1.rows :
            i # j => out1.rows[i]["email"] # out1.rows[j]["email"]

\* C9: transform_clientes is idempotent: applied to its own output it returns
\* that output.
C9_ClientesIdempotent ==
    /\ pc = "twice" => out2 = out1
    /\ pc # "raised2"

\* C11: no cleaning operation raises for a malformed field value: for every
\* raw Customer table whose phone column may have been read as numbers and
\* whose emails may be null or hold zero or several '@', transform_clientes
\* returns a cleaned table.
C11_CleaningNeverRaises == pc # "raised"

----------------------------------------------------------------------------
(* transform_clientes on tables in which several emails are shared         *)

MaxShared == 4

SharedEmailTexts == {TxtAX, TxtBY, TxtA1X}

InitShared ==
    /\ PipelineIdle
    /\ pc = "raw"
    /\ \E n \in 1..MaxShared :
           \E em \in [1..n -> SharedEmailTexts] :
               inp = ReadCsv(ClientesCsv([i \in 1..n |-> <<TxtPhoneDash, em[i]>>]))
    /\ out1 = NoTable
    /\ out2 = NoTable

NextShared == ApplyClientes

SpecShared == InitShared /\ [][NextShared]_vars

\* row i of the raw table holds a later occurrence of an email
LaterOccurrence(i) ==
    \E j \in 1..(i - 1) :
        inp.rows[j]["contacto_email"] = inp.rows[i]["contacto_email"]

\* C19: when several customers share an email, transform_clientes leaves the
\* first occurrence of each shared email unchanged and rewrites every later
\* occurrence to <name><row-index>@<domain>; rows whose email is not shared
\* are unchanged.
C19_LaterOccurrencesSuffixed ==
    pc = "once" =>
        \A i \in DOMAIN inp.rows :
            out1.rows[i]["email"] =
                IF LaterOccurrence(i)
                THEN SuffixedEmail(inp.rows[i]["contacto_email"], i - 1)
                ELSE inp.rows[i]["contacto_email"]

----------------------------------------------------------------------------
(* Cleaning of the six other tables, applied once and then to its own      *)
(* output                                                                  *)

MaxRows == 2

TxtDate0101 == <<"2", "0", "2", "4", "-", "0", "1", "-", "0", "1">>

TxtDate0110 == <<"2", "0", "2", "4", "-", "0", "1", "-", "1", "0">>

TxtDate1231 == <<"2", "0", "2", "3", "-", "1", "2", "-", "3", "1">>

TxtDateBad == <<"2", "0", "2", "4", "-", "1", "3", "-", "0", "1">>

TxtSpCompletadoSp == <<" ", "c", "o", "m", "p", "l", "e", "t", "a", "d", "o", " ">>

TxtMixed == <<"a", "B", " ", "c", "D", " ">>

Txt5 == <<"5">>

Txt0 == <<"0">>

TxtNeg5 == <<"-", "5">>

Txt2 == <<"2">>

Txt100 == <<"1", "0", "0">>

TxtMailUpper == <<" ", "A", "@", "X">>

OtherEntities ==
    {"ordenes_produccion", "productos", "materiales", "empleados",
     "detalles_orden", "uso_materiales"}

\* the columns of each raw table that the pipeline reads
RawCols(e) ==
    CASE e = "ordenes_produccion" ->
            {"id_orden", "id_cliente", "id_empleado_responsable", "fecha_orden",
             "fecha_completado", "estado"}
      [] e = "productos" -> {"id_producto", "nombre_producto", "precio"}
      [] e = "materiales" ->
            {"id_material", "nombre_material", "tipo", "unidad_medida",
             "cantidad_disponible"}
      [] e = "empleados" -> {"id_empleado", "nombre", "cargo", "email"}
      [] e = "detalles_orden" -> {"id_orden", "id_producto", "cantidad", "subtotal"}
      [] e = "uso_materiales" -> {"id_orden", "id_material", "cantidad_usada"}

\* the fields the studied inputs vary, per entity: one record per choice
FieldChoices(e) ==
    CASE e = "ordenes_produccion" ->
            {[fecha_orden |-> a, fecha_completado |-> b, estado |-> c] :
                a \in {TxtDate0101, TxtNoAt, Empty},
                b \in {TxtDate0110, TxtDate1231, TxtDateBad},
                c \in {TxtSpCompletadoSp, TxtMixed, Empty}}
      [] e = "productos" ->
            {[nombre_producto |-> a, precio |-> b] :
                a \in {TxtMixed, Empty},
                b \in {Txt5, TxtNeg5, Txt0, TxtNoAt, Empty}}
      [] e = "materiales" ->
            {[tipo |-> a, unidad_medida |-> b, cantidad_disponible |-> c] :
                a \in {TxtMixed, Empty},
                b \in {TxtMixed, TxtSpCompletadoSp},
                c \in {Txt5, Txt0, TxtNoAt, Empty}}
      [] e = "empleados" ->
            {[nombre |-> a, cargo |-> b, email |-> c] :
                a \in {TxtMixed, TxtEmpresa},
                b \in {TxtMixed, Empty},
                c \in {TxtMailUpper, Empty}}
      [] e = "detalles_orden" ->
            {[cantidad |-> a, subtotal |-> b] :
                a \in {Txt2, Txt0, TxtNoAt, Empty},
                b \in {Txt100, Txt0, TxtNeg5, TxtNoAt}}
      [] e = "uso_materiales" ->
            {[cantidad_usada |-> a] : a \in {Txt5, Txt0, TxtNoAt, Empty}}

\* the CSV file of entity e whose row i holds the fields ch[i]; the other
\* columns (identifiers, names) hold the row number
CsvOf(e, ch) ==
    [cols |-> RawCols(e),
     rows |-> [i \in DOMAIN ch |->
                 [c \in RawCols(e) |->
                     IF c \in DOMAIN ch[i] THEN ch[i][c] ELSE NatToStr(i)]]]

InitTransform ==
    /\ PipelineIdle
    /\ pc = "raw"
    /\ \E e \in OtherEntities : \E n \in 0..MaxRows :
           \E ch \in [1..n -> FieldChoices(e)] :
               inp = [name |-> e, df |-> ReadCsv(CsvOf(e, ch))]
    /\ out1 = NoTable
    /\ out2 = NoTable

ApplyTransform ==
    /\ pc = "raw"
    /\ out1' = TransformOf(inp.name, inp.df)
    /\ pc' = IF IsRaised(out1') THEN "raised" ELSE "once"
    /\ UNCHANGED <<inp, out2, pipelineVars>>

ReapplyTransform ==
    /\ pc = "once"
    /\ out2' = TransformOf(inp.name, out1)
    /\ pc' = IF IsRaised(out2') THEN "raised2" ELSE "twice"
    /\ UNCHANGED <<inp, out1, pipelineVars>>

NextTransform == ApplyTransform \/ ReapplyTransform

SpecTransform == InitTransform /\ [][NextTransform]_vars

ExpectedPrecio(r) ==
    IF IsNull(r["cantidad"]) \/ IsNull(r["subtotal"]) \/ r["cantidad"].n = 0
    THEN NaN
    ELSE IF r["cantidad"].n > 0
    THEN Num(r["subtotal"].n * r["cantidad"].d, r["subtotal"].d * r["cantidad"].n)
    ELSE Num(-(r["subtotal"].n * r["cantidad"].d), r["subtotal"].d * (-r["cantidad"].n))

\* C20: in cleaned OrderLine, precio_unitario equals subtotal / cantidad when
\* both are present and cantidad is non-zero, and is null whenever cantidad is
\* 0 or either value is missing; never an error, never infinity.
C20_PrecioUnitario ==
    inp.name = "detalles_orden" =>
        /\ pc # "raised"
        /\ pc = "once" =>
               \A i \in DOMAIN out1.rows :
                   out1.rows[i]["precio_unitario"] = ExpectedPrecio(out1.rows[i])

\* a raw product row whose price is a number greater than 0
PositivePrice(r) ==
    LET p == ToNumericCell(r["precio"]) IN p.k = "num" /\ p.n > 0

DateOrNull(x) == IF x.k = "str" THEN ParseDate(x.s) ELSE NaT

\* C26: whenever transform_ordenes_produccion returns, it keeps every raw
\* order row in its place: the identifiers are as read, each date is a valid
\* timestamp or null (an unparseable date becomes null), estado is trimmed
\* and title-cased, and duracion_dias is the completion date minus the order
\* date in whole days when both dates are non-null and null otherwise.
C26_OrdersKeptAndCleaned ==
    (inp.name = "ordenes_produccion" /\ pc = "once") =>
        /\ Len(out1.rows) = Len(inp.df.rows)
        /\ \A i \in DOMAIN out1.rows :
               LET r == inp.df.rows[i]
                   c == out1.rows[i]
                   a == c["fecha_orden"]
                   b == c["fecha_completado"]
               IN  /\ \A k \in {"id_orden", "id_cliente", "id_empleado_responsable"} :
                          c[k] = r[k]
                   /\ a = DateOrNull(r["fecha_orden"])
                   /\ b = DateOrNull(r["fecha_completado"])
                   /\ {a.k, b.k} \subseteq {"ts", "nat"}
                   /\ c["estado"] = StrCell(r["estado"], LAMBDA t : PyTitle(PyStrip(t)))
                   /\ c["duracion_dias"] =
                          IF a.k = "ts" /\ b.k = "ts" THEN IntCell(b.n - a.n) ELSE NaN

\* an order of 2024-01-01 completed on 2024-01-10 with estado " completado "
\* has been cleaned to "Completado" and 9 days, next to an order whose date
\* could not be read
C26_Witness ==
    /\ pc = "once"
    /\ inp.name = "ordenes_produccion"
    /\ Len(out1.rows) = 2
    /\ inp.df.rows[1]["fecha_orden"] = Str(TxtDate0101)
    /\ inp.df.rows[1]["fecha_completado"] = Str(TxtDate0110)
    /\ inp.df.rows[1]["estado"] = Str(TxtSpCompletadoSp)
    /\ out1.rows[1]["estado"] = Str(TxtCompletado)
    /\ out1.rows[1]["duracion_dias"] = IntCell(9)
    /\ out1.rows[2]["fecha_completado"] = NaT
    /\ out1.rows[2]["duracion_dias"] = NaN

----------------------------------------------------------------------------
(* The run: src/src/etl.py, with the raw directory and the two output      *)
(* directories.  A stored file is [by, whole]: the number of the run that  *)
(* wrote it (0: no file) and whether it was written to the end.            *)

MaxRuns == 2

MaxUnreadable == 1

NoFile == [by |-> 0, whole |-> FALSE]

NoCsv == [cols |-> {}, rows |-> << >>]

\* a well-formed file of each of the six other entities
GoodCsv(e) ==
    CASE e = "ordenes_produccion" ->
            CsvOf(e, <<[fecha_orden |-> TxtDate0101, fecha_completado |-> TxtDate0110,
                        estado |-> TxtSpCompletadoSp],
                       [fecha_orden |-> TxtDate0101, fecha_completado |-> TxtDateBad,
                        estado |-> TxtMixed]>>)
      [] e = "productos" ->
            CsvOf(e, <<[nombre_producto |-> TxtMixed, precio |-> Txt5],
                       [nombre_producto |-> TxtMixed, precio |-> TxtNeg5]>>)
      [] e = "materiales" ->
            CsvOf(e, <<[tipo |-> TxtMixed, unidad_medida |-> TxtMixed,
                        cantidad_disponible |-> Txt5],
                       [tipo |-> TxtMixed, unidad_medida |-> TxtMixed,
                        cantidad_disponible |-> TxtNoAt]>>)
      [] e = "empleados" ->
            CsvOf(e, <<[nombre |-> TxtMixed, cargo |-> TxtMixed, email |-> TxtMailUpper],
                       [nombre |-> TxtEmpresa, cargo |-> TxtMixed, email |-> TxtMailUpper]>>)
      [] e = "detalles_orden" ->
            CsvOf(e, <<[cantidad |-> Txt2, subtotal |-> Txt100],
                       [cantidad |-> Txt0, subtotal |-> Txt100]>>)
      [] e = "uso_materiales" ->
            CsvOf(e, <<[cantidad_usada |-> Txt5], [cantidad_usada |-> TxtNoAt]>>)

\* the Customer files of the runs: a clean one, one whose phone column holds
\* digits only (read as numbers), one with two customers without email
GoodClientesCsv == ClientesCsv(<<<<TxtPhoneDash, TxtAX>>, <<TxtPhoneDash, TxtBY>>>>)

ClientesFiles ==
    {GoodClientesCsv,
     ClientesCsv(<<<<TxtPhoneDigits, TxtAX>>, <<TxtPhoneDigits, TxtBY>>>>),
     ClientesCsv(<<<<TxtPhoneDash, Empty>>, <<TxtPhoneDash, Empty>>>>)}

\* the raw directory in which the entities of U cannot be read for reason why
RawDir(U, why, cli) ==
    [e \in EntitySet |->
        IF e \in U THEN [st |-> why, csv |-> NoCsv]
        ELSE [st |-> "ok", csv |-> IF e = "clientes" THEN cli ELSE GoodCsv(e)]]

\* the raw directories a run may find: at most MaxUnreadable files unreadable,
\* or all seven
RawDirs ==
    {RawDir(U, why, cli) :
        U \in {V \in SUBSET EntitySet : Cardinality(V) <= MaxUnreadable \/ V = EntitySet},
        why \in {"missing", "corrupt"},
        cli \in ClientesFiles}

PhaseOrder ==
    <<"extract_all", "transform_all", "save_processed", "create_analytics_tables",
      "save_analytics">>

InitRun ==
    /\ pc = "idle"
    /\ raw = << >>
    /\ clean = << >>
    /\ analytics = << >>
    /\ processed = [e \in EntitySet |-> NoFile]
    /\ derived = [d \in {DerivedNames[i] : i \in DOMAIN DerivedNames} |-> NoFile]
    /\ phases = << >>
    /\ failed = ""
    /\ result = "none"
    /\ run = 0
    /\ inp = NoTable
    /\ out1 = NoTable
    /\ out2 = NoTable

studyVars == <<inp, out1, out2>>

\* python src/etl.py is started
StartRun ==
    /\ pc \in {"idle", "done"}
    /\ run < MaxRuns
    /\ run' = run + 1
    /\ raw' = << >>
    /\ clean' = << >>
    /\ analytics' = << >>
    /\ phases' = << >>
    /\ failed' = ""
    /\ result' = "none"
    /\ pc' = "extract"
    /\ UNCHANGED <<processed, derived, studyVars>>

\* lines 71-73: any exception ends the run with False
Except(e) ==
    /\ failed' = e
    /\ result' = "False"
    /\ pc' = "done"

\* lines 33-38: data/raw does not exist, or holds one of the raw directories
Extract ==
    /\ pc = "extract"
    /\ \/ /\ Except("FileNotFoundError")
          /\ UNCHANGED <<raw, phases>>
       \/ \E d \in RawDirs :
             LET got == extract_all(d)
             IN  /\ phases' = Append(phases, "extract_all")
                 /\ IF IsRaised(got)
                    THEN Except(got.err) /\ UNCHANGED raw
                    ELSE /\ raw' = got
                         /\ IF DOMAIN got = {}
                            THEN /\ failed' = "NoData"
                                 /\ result' = "False"
                                 /\ pc' = "done"
                            ELSE /\ pc' = "transform"
                                 /\ UNCHANGED <<failed, result>>
    /\ UNCHANGED <<clean, analytics, processed, derived, run, studyVars>>

\* lines 42-43 with the exception of a cleaning function logged and the run
\* carried on without cleaned tables
TransformUnchecked ==
    /\ pc = "transform"
    /\ phases' = Append(phases, "transform_all")
    /\ LET got == transform_all(raw)
       IN  IF IsRaised(got)
           THEN /\ failed' = got.err
                /\ clean' = << >>
                /\ pc' = "save_processed"
                /\ UNCHANGED result
           ELSE /\ clean' = got
                /\ pc' = "save_processed"
                /\ UNCHANGED <<failed, result>>
    /\ UNCHANGED <<raw, analytics, processed, derived, run, studyVars>>

\* lines 42-43 with cleaning functions that work on the table they receive
\* instead of on df.copy() (transform_clientes still rebinds its table to the
\* result of rename before it changes anything)
TransformInPlace ==
    /\ pc = "transform"
    /\ phases' = Append(phases, "transform_all")
    /\ LET got == transform_all(raw)
       IN  IF IsRaised(got)
           THEN Except(got.err) /\ UNCHANGED <<raw, clean>>
           ELSE /\ clean' = got
                /\ raw' = [e \in DOMAIN raw |-> IF e = "clientes" THEN raw[e] ELSE got[e]]
                /\ pc' = "save_processed"
                /\ UNCHANGED <<failed, result>>
    /\ UNCHANGED <<analytics, processed, derived, run, studyVars>>

\* lines 42-43
Transform ==
    /\ pc = "transform"
    /\ phases' = Append(phases, "transform_all")
    /\ LET got == transform_all(raw)
       IN  IF IsRaised(got)
           THEN Except(got.err) /\ UNCHANGED clean
           ELSE /\ clean' = got
                /\ pc' = "save_processed"
                /\ UNCHANGED <<failed, result>>
    /\ UNCHANGED <<raw, analytics, processed, derived, run, studyVars>>

\* load.py lines 45-48 and 294-297: the files of order are written one after
\* the other into store by run r.  k files are written to the end; when
\* k < Len(order) the write of file k+1 fails, leaving it as it was or, with
\* torn, partly written.
WriteFiles(store, order, k, torn, r) ==
    [f \in DOMAIN store |->
        IF \E i \in 1..k : order[i] = f THEN [by |-> r, whole |-> TRUE]
        ELSE IF torn /\ k < Len(order) /\ order[k + 1] = f
             THEN [by |-> r, whole |-> FALSE]
        ELSE store[f]]

\* the process is stopped from outside: run_etl returns nothing
Killed ==
    /\ failed' = "killed"
    /\ result' = "none"
    /\ pc' = "done"

\* line 53
SaveProcessed ==
    /\ pc = "save_processed"
    /\ phases' = Append(phases, "save_processed")
    /\ LET order == InOrder(Entities, DOMAIN clean)
       IN  \/ /\ processed' = WriteFiles(processed, order, Len(order), FALSE, run)
              /\ pc' = "create_analytics"
              /\ UNCHANGED <<failed, result>>
           \/ \E k \in 0..(Len(order) - 1), torn \in BOOLEAN :
                 /\ processed' = WriteFiles(processed, order, k, torn, run)
                 /\ Except("OSError") \/ Killed
    /\ UNCHANGED <<raw, clean, analytics, derived, run, studyVars>>

\* line 56
CreateAnalytics ==
    /\ pc = "create_analytics"
    /\ phases' = Append(phases, "create_analytics_tables")
    /\ LET got == create_analytics_tables(clean)
       IN  IF IsRaised(got)
           THEN Except(got.err) /\ UNCHANGED analytics
           ELSE /\ analytics' = got
                /\ pc' = "save_analytics"
                /\ UNCHANGED <<failed, result>>
    /\ UNCHANGED <<raw, clean, processed, derived, run, studyVars>>

\* line 57 with a failed write logged and skipped over
SaveAnalyticsSwallow ==
    /\ pc = "save_analytics"
    /\ phases' = Append(phases, "save_analytics")
    /\ LET order == InOrder(DerivedNames, DOMAIN analytics)
       IN  \/ /\ derived' = WriteFiles(derived, order, Len(order), FALSE, run)
              /\ pc' = "report"
              /\ UNCHANGED <<failed, result>>
           \/ \E k \in 0..(Len(order) - 1), torn \in BOOLEAN :
                 /\ derived' = WriteFiles(derived, order, k, torn, run)
                 /\ failed' = "OSError"
                 /\ pc' = "report"
                 /\ UNCHANGED result
    /\ UNCHANGED <<raw, clean, analytics, processed, run, studyVars>>

\* line 57
SaveAnalytics ==
    /\ pc = "save_analytics"
    /\ phases' = Append(phases, "save_analytics")
    /\ LET order == InOrder(DerivedNames, DOMAIN analytics)
       IN  \/ /\ derived' = WriteFiles(derived, order, Len(order), FALSE, run)
              /\ pc' = "report"
              /\ UNCHANGED <<failed, result>>
           \/ \E k \in 0..(Len(order) - 1), torn \in BOOLEAN :
                 /\ derived' = WriteFiles(derived, order, k, torn, run)
                 /\ Except("OSError") \/ Killed
    /\ UNCHANGED <<raw, clean, analytics, processed, run, studyVars>>

\* lines 59-69
Report ==
    /\ pc = "report"
    /\ result' = "True"
    /\ pc' = "done"
    /\ UNCHANGED <<raw, clean, analytics, processed, derived, phases, failed,
                   run, studyVars>>

\* the process is stopped between two phases
Interrupt ==
    /\ pc \in {"extract", "transform", "save_processed", "create_analytics",
               "save_analytics", "report"}
    /\ Killed
    /\ UNCHANGED <<raw, clean, analytics, processed, derived, phases, run,
                   studyVars>>

Next ==
    \/ StartRun
    \/ Extract
    \/ Transform
    \/ SaveProcessed
    \/ CreateAnalytics
    \/ SaveAnalytics
    \/ Report
    \/ Interrupt

Spec == InitRun /\ [][Next]_vars

----------------------------------------------------------------------------
(* Properties of run_etl                                                   *)

DerivedSet == {DerivedNames[i] : i \in DOMAIN DerivedNames}

IsPrefix(p, q) == Len(p) <= Len(q) /\ \A i \in DOMAIN p : p[i] = q[i]

\* a phase is entered in this step
PhaseStarts == phases' # phases /\ phases' # << >>

\* C1: in every execution of run_etl the phases occur in the order
\* extract_all, transform_all, save_processed, create_analytics_tables,
\* save_analytics; a phase starts only when nothing has failed before it in
\* the run, and it is the successor of the last phase started.
C1_PhasesInOrder ==
    /\ [](IsPrefix(phases, PhaseOrder))
    /\ [][PhaseStarts =>
            /\ failed = ""
            /\ result = "none"
            /\ Len(phases) < Len(PhaseOrder)
            /\ phases' = Append(phases, PhaseOrder[Len(phases) + 1])]_vars

\* a run that went through the five phases, and it is the second run
C1_Witness ==
    /\ run = 2
    /\ pc = "done"
    /\ result = "True"
    /\ phases = PhaseOrder

\* C2: run_etl returns failure if and only if zero raw tables loaded or a
\* storage write failed.
C2_FailureIffNoDataOrWrite ==
    (pc = "done" /\ failed # "killed") =>
        (result = "False" <=> (DOMAIN raw = {} \/ failed = "OSError"))

FilesOf(store) == {f \in DOMAIN store : store[f].by # 0}

\* C5: after every successful run, every cleaned-entity file and every
\* derived-table file present in storage was written by that run; no file of
\* an earlier run remains.
C5_NoStaleFiles ==
    (pc = "done" /\ result = "True") =>
        /\ \A f \in FilesOf(processed) : processed[f].by = run
        /\ \A f \in FilesOf(derived) : derived[f].by = run

\* the run stopped, by a failed write or from outside, before every derived
\* table it built was persisted
StoppedEarly ==
    /\ pc = "done"
    /\ failed \in {"OSError", "killed"}
    /\ \/ "save_analytics" \notin {phases[i] : i \in DOMAIN phases}
       \/ \E d \in DOMAIN analytics : derived[d] # [by |-> run, whole |-> TRUE]

\* C6: if a run stops before all derived tables built in that run are
\* persisted, the derived storage holds the previous run's derived tables
\* unchanged: no file in it was written, wholly or partly, by this run.
C6_DerivedUntouched ==
    StoppedEarly => \A d \in DerivedSet : derived[d].by # run

\* C16: no component mutates another's output: the transformation phase
\* leaves the raw tables it receives unchanged, and save_processed,
\* create_analytics_tables and save_analytics leave the cleaned tables
\* unchanged.
C16_InputsUnchanged ==
    [][/\ pc = "transform" => raw' = raw
       /\ pc \in {"save_processed", "create_analytics", "save_analytics"} =>
              clean' = clean]_vars

\* a run went through all phases; cleaning had removed a product and the
\* derived tables were built from the cleaned tables
C16_Witness ==
    /\ pc = "done"
    /\ result = "True"
    /\ "productos" \in DOMAIN clean
    /\ Len(clean["productos"].rows) < Len(raw["productos"].rows)
    /\ "ventas_por_producto" \in DOMAIN analytics

\* C7: if writing any cleaned table or any derived table fails, run_etl
\* returns failure; it never returns success after a failed write.
C7_WriteFailureFails ==
    /\ (pc = "done" /\ failed = "OSError") => result = "False"
    /\ result = "True" => failed = ""

\* a write of save_analytics failed after save_processed had succeeded
C7_Witness ==
    /\ pc = "done"
    /\ failed = "OSError"
    /\ phases = PhaseOrder
    /\ \E d \in DerivedSet : derived[d].by = run

\* C28: after any run that ends, with success or with failure, the cleaned
\* files and the derived files in storage come from the same run: never
\* cleaned files of this run next to derived files of an earlier run.
C28_StoresOfSameRun ==
    (pc = "done" /\ failed # "killed") =>
        \A f \in FilesOf(processed), d \in FilesOf(derived) :
            processed[f].by = derived[d].by

----------------------------------------------------------------------------
(* extract_all on every combination of readable, missing and corrupt files *)

FileStates == {"ok", "missing", "corrupt"}

InitExtract ==
    /\ PipelineIdle
    /\ pc = "raw"
    /\ \E st \in [EntitySet -> FileStates] :
           inp = [e \in EntitySet |->
                    [st  |-> st[e],
                     csv |-> IF st[e] # "ok" THEN NoCsv
                             ELSE IF e = "clientes" THEN GoodClientesCsv
                             ELSE GoodCsv(e)]]
    /\ out1 = NoTable
    /\ out2 = NoTable

ApplyExtract ==
    /\ pc = "raw"
    /\ out1' = extract_all(inp)
    /\ pc' = IF IsRaised(out1') THEN "raised" ELSE "once"
    /\ UNCHANGED <<inp, out2, pipelineVars>>

NextExtract == ApplyExtract

SpecExtract == InitExtract /\ [][NextExtract]_vars

Readable(dir) == {e \in EntitySet : dir[e].st = "ok"}

\* C4: for every subset of the seven raw tables that is readable, extract_all
\* returns a mapping whose key set is exactly that subset; a missing or
\* unreadable table is omitted and never makes extract_all raise.
C4_ExtractsReadableSubset ==
    /\ pc # "raised"
    /\ pc = "once" => DOMAIN out1 = Readable(inp)

\* a directory with a missing file, a corrupt file and readable files
C4_Witness ==
    /\ pc = "once"
    /\ \E e \in EntitySet : inp[e].st = "missing"
    /\ \E e \in EntitySet : inp[e].st = "corrupt"
    /\ Cardinality(DOMAIN out1) = 3

----------------------------------------------------------------------------
(* create_analytics_tables on every subset of the seven cleaned entities    *)

GoodClean == transform_all(extract_all(RawDir({}, "missing", GoodClientesCsv)))

InitAnalytics ==
    /\ PipelineIdle
    /\ pc = "raw"
    /\ \E S \in SUBSET EntitySet : inp = [e \in S |-> GoodClean[e]]
    /\ out1 = NoTable
    /\ out2 = NoTable

ApplyAnalytics ==
    /\ pc = "raw"
    /\ out1' = create_analytics_tables(inp)
    /\ pc' = IF IsRaised(out1') THEN "raised" ELSE "once"
    /\ UNCHANGED <<inp, out2, pipelineVars>>

NextAnalytics == ApplyAnalytics

SpecAnalytics == InitAnalytics /\ [][NextAnalytics]_vars

\* the derived tables whose listed entities are all among present
Buildable(present) ==
    {d \in {"ordenes_completas"} :
        {"ordenes_produccion", "clientes", "empleados"} \subseteq present}
    \cup {d \in {"ventas_por_producto"} :
        {"detalles_orden", "productos", "ordenes_produccion"} \subseteq present}
    \cup {d \in {"uso_materiales_agregado"} :
        {"uso_materiales", "materiales", "ordenes_produccion"} \subseteq present}
    \cup {d \in {"metricas_por_cliente"} :
        {"ordenes_produccion", "detalles_orden", "clientes"} \subseteq present}
    \cup {d \in {"productividad_empleados"} :
        {"ordenes_produccion", "empleados"} \subseteq present}

\* C3: create_analytics_tables builds a derived table if and only if all of
\* its required cleaned entities are present; a skipped table is not an error
\* and does not prevent the others from being built.
C3_BuiltIffDependencies ==
    /\ pc # "raised"
    /\ pc = "once" => DOMAIN out1 = Buildable(DOMAIN inp)

\* only materiales is absent and exactly the other four tables are produced
C3_Witness ==
    /\ pc = "once"
    /\ DOMAIN inp = EntitySet \ {"materiales"}
    /\ DOMAIN out1 = {"ordenes_completas", "ventas_por_producto",
                      "metricas_por_cliente", "productividad_empleados"}

----------------------------------------------------------------------------
(* Cleaning and table building when columns are absent from one raw table  *)

GoodRaw == extract_all(RawDir({}, "missing", GoodClientesCsv))

\* table t as read from a file without the columns of S
WithoutCols(t, S) ==
    [dt   |-> [c \in DOMAIN t.dt \ S |-> t.dt[c]],
     rows |-> [i \in DOMAIN t.rows |-> [c \in DOMAIN t.dt \ S |-> t.rows[i][c]]]]

InitMissing ==
    /\ PipelineIdle
    /\ pc = "raw"
    /\ \E e \in EntitySet :
           \E S \in SUBSET DOMAIN GoodRaw[e].dt :
               /\ S # DOMAIN GoodRaw[e].dt
               /\ inp = [x \in EntitySet |->
                           IF x = e THEN WithoutCols(GoodRaw[x], S) ELSE GoodRaw[x]]
    /\ out1 = NoTable
    /\ out2 = NoTable

\* etl.py line 43
CleanAll ==
    /\ pc = "raw"
    /\ out1' = transform_all(inp)
    /\ pc' = IF IsRaised(out1') THEN "raised" ELSE "once"
    /\ UNCHANGED <<inp, out2, pipelineVars>>

\* etl.py line 56
BuildAll ==
    /\ pc = "once"
    /\ out2' = create_analytics_tables(out1)
    /\ pc' = IF IsRaised(out2') THEN "raised2" ELSE "twice"
    /\ UNCHANGED <<inp, out1, pipelineVars>>

NextMissing == CleanAll \/ BuildAll

SpecMissing == InitMissing /\ [][NextMissing]_vars

\* C18: when a column that a cleaning or table-building step depends on is
\* absent from a table, only that step is skipped: neither transform_all nor
\* create_analytics_tables raises.
C18_AbsentColumnSkipped == pc \notin {"raised", "raised2"}

----------------------------------------------------------------------------
(* The derived tables when keys are missing, unmatched or repeated         *)

MaxOrders == 2

MaxLines == 2

Txt1 == <<"1">>

Txt3 == <<"3">>

\* clientes.csv with the given identifiers
KeyClientesCsv(ids) ==
    [cols |-> ClientesCols,
     rows |-> [i \in DOMAIN ids |->
                 [c \in ClientesCols |->
                     CASE c = "id_cliente" -> ids[i]
                       [] c = "nombre_empresa" -> TxtEmpresa
                       [] c = "ciudad" -> TxtNoAt
                       [] c = "contacto_telefono" -> TxtPhoneDash
                       [] c = "contacto_email" -> IF i = 1 THEN TxtAX ELSE TxtBY]]]

\* the orders: a completed order of customer 1, 3 (unknown) or nobody, under
\* employee 1 or nobody, with or without an identifier
OrderChoices ==
    {[id_orden |-> o, id_cliente |-> c, id_empleado_responsable |-> r,
      fecha_orden |-> TxtDate0101, fecha_completado |-> TxtDate0110,
      estado |-> TxtSpCompletadoSp] :
        o \in {Txt1, Empty}, c \in {Txt1, Txt3, Empty}, r \in {Txt1, Empty}}

\* the order lines: of order 1 or none, of product 1 or none
LineChoices ==
    {[id_orden |-> o, id_producto |-> p, cantidad |-> Txt2, subtotal |-> Txt100] :
        o \in {Txt1, Empty}, p \in {Txt1, Empty}}

InitKeys ==
    /\ PipelineIdle
    /\ pc = "raw"
    /\ \E n \in 0..MaxOrders, m \in 0..MaxLines :
           \E os \in [1..n -> OrderChoices], ls \in [1..m -> LineChoices],
              ids \in {<<Txt1, Txt2>>, <<Txt1, Txt1>>} :
               inp = [e \in EntitySet |->
                        CASE e = "clientes" -> ReadCsv(KeyClientesCsv(ids))
                          [] e = "ordenes_produccion" -> ReadCsv(CsvOf(e, os))
                          [] e = "detalles_orden" -> ReadCsv(CsvOf(e, ls))
                          [] OTHER -> GoodRaw[e]]
    /\ out1 = NoTable
    /\ out2 = NoTable

SpecKeys == InitKeys /\ [][NextMissing]_vars

\* a ratio that is 0 or null
ZeroOrNull(x) == IsNull(x) \/ x = IntCell(0)

\* in every row of t whose denominator den is 0 the ratio c is 0 or null
SafeRatio(t, c, den) ==
    \A i \in DOMAIN t.rows : t.rows[i][den] = IntCell(0) => ZeroOrNull(t.rows[i][c])

\* C12: in ventas_por_producto.ticket_promedio,
\* metricas_por_cliente.ticket_promedio and
\* productividad_empleados.tasa_completitud a zero denominator never raises
\* and never yields infinity: the result is 0 or null.
C12_RatioSafety ==
    /\ pc # "raised2"
    /\ pc = "twice" =>
          /\ SafeRatio(out2["ventas_por_producto"], "ticket_promedio", "num_ordenes")
          /\ SafeRatio(out2["metricas_por_cliente"], "ticket_promedio", "num_ordenes")
          /\ SafeRatio(out2["productividad_empleados"], "tasa_completitud",
                       "total_ordenes")

\* row r without the columns that are not in cols
OnlyCols(r, cols) == [c \in cols |-> r[c]]

\* C13: ordenes_completas has exactly one row per row of cleaned
\* ordenes_produccion, in the same order and with the order's own fields, for
\* any contents of clientes and empleados.
C13_OneRowPerOrder ==
    pc = "twice" =>
        LET ordenes == out1["ordenes_produccion"]
            oc == out2["ordenes_completas"]
        IN  /\ Len(oc.rows) = Len(ordenes.rows)
            /\ \A i \in DOMAIN ordenes.rows :
                   OnlyCols(oc.rows[i], DOMAIN ordenes.dt) = ordenes.rows[i]

\* the sum of the count column c over the rows of t
Total(t, c) == SumCells([i \in DOMAIN t.rows |-> t.rows[i][c]]).n

\* C14: no row loss in the aggregated tables: the counts of
\* metricas_por_cliente and of productividad_empleados add up to the number
\* of cleaned orders, those of ventas_por_producto to the number of cleaned
\* order lines, those of uso_materiales_agregado to the number of cleaned
\* usage rows.
C14_NoRowLoss ==
    pc = "twice" =>
        /\ Total(out2["metricas_por_cliente"], "num_ordenes")
              = Len(out1["ordenes_produccion"].rows)
        /\ Total(out2["productividad_empleados"], "total_ordenes")
              = Len(out1["ordenes_produccion"].rows)
        /\ Total(out2["ventas_por_producto"], "num_ordenes")
              = Len(out1["detalles_orden"].rows)
        /\ Total(out2["uso_materiales_agregado"], "num_ordenes")
              = Len(out1["uso_materiales"].rows)

----------------------------------------------------------------------------
(* transform_all against the cleaning of the entities one by one, in any   *)
(* order                                                                   *)

\* mapping f with key k set to v
With(f, k, v) == [x \in DOMAIN f \cup {k} |-> IF x = k THEN v ELSE f[x]]

\* the raw mappings: any of the seven tables, with or without a table
\* that is not one of the seven
InitAll ==
    /\ PipelineIdle
    /\ pc = "raw"
    /\ \E S \in SUBSET (EntitySet \cup {"otros"}) :
           inp = [e \in S |-> IF e = "otros" THEN GoodRaw["productos"] ELSE GoodRaw[e]]
    /\ out1 = << >>
    /\ out2 = << >>

\* one entity not yet cleaned is cleaned by its own function
CleanOne ==
    /\ pc = "raw"
    /\ \E e \in (DOMAIN inp \cap EntitySet) \ DOMAIN out1 :
           out1' = With(out1, e, TransformOf(e, inp[e]))
    /\ UNCHANGED <<pc, inp, out2, pipelineVars>>

\* all are cleaned: transform_all is run on the same mapping
CleanTogether ==
    /\ pc = "raw"
    /\ (DOMAIN inp \cap EntitySet) \subseteq DOMAIN out1
    /\ out2' = transform_all(inp)
    /\ pc' = IF IsRaised(out2') THEN "raised" ELSE "once"
    /\ UNCHANGED <<inp, out1, pipelineVars>>

NextAll == CleanOne \/ CleanTogether

SpecAll == InitAll /\ [][NextAll]_vars

\* C17: transform_all returns a mapping whose key set is the key set of its
\* input restricted to the seven entity names; every present entity is
\* cleaned by its own cleaning function, and the result is the one obtained
\* by cleaning the entities in any other order.
C17_TransformAllKeys ==
    /\ pc # "raised"
    /\ pc = "once" =>
          /\ DOMAIN out2 = DOMAIN inp \cap EntitySet
          /\ \A e \in DOMAIN out2 : out2[e] = TransformOf(e, inp[e])
          /\ out2 = out1

\* three of the seven tables and a foreign one were given, usage among them
C17_Witness ==
    /\ pc = "once"
    /\ DOMAIN inp = {"clientes", "productos", "uso_materiales", "otros"}
    /\ DOMAIN out2 = {"clientes", "productos", "uso_materiales"}
    /\ out2["productos"] # inp["productos"]

----------------------------------------------------------------------------
(* create_analytics_tables against the five builders run one by one, in    *)
(* any order, over the same cleaned entities                               *)

InitBuilders ==
    /\ PipelineIdle
    /\ pc = "raw"
    /\ \E S \in SUBSET EntitySet : inp = [e \in S |-> GoodClean[e]]
    /\ out1 = << >>
    /\ out2 = << >>

\* the derived tables that lines 69-101 let be built from ds
CanBuild(ds) == {d \in {DerivedNames[i] : i \in DOMAIN DerivedNames} :
                    Requires(d) \subseteq DOMAIN ds}

\* one builder not yet run is run and stores its table under its own name
BuildOne ==
    /\ pc = "raw"
    /\ \E d \in CanBuild(inp) \ DOMAIN out1 :
           out1' = With(out1, d, Build(d, inp))
    /\ UNCHANGED <<pc, inp, out2, pipelineVars>>

\* all have run: create_analytics_tables is run on the same cleaned entities
BuildTogether ==
    /\ pc = "raw"
    /\ CanBuild(inp) \subseteq DOMAIN out1
    /\ out2' = create_analytics_tables(inp)
    /\ pc' = IF IsRaised(out2') THEN "raised" ELSE "once"
    /\ UNCHANGED <<inp, out1, pipelineVars>>

NextBuilders == BuildOne \/ BuildTogether

SpecBuilders == InitBuilders /\ [][NextBuilders]_vars

\* C15: the five derived-table builders are independent: run in any order
\* over the same cleaned entities, each leaves in the result mapping only the
\* table of its own name, computed from the cleaned entities alone, and the
\* final mapping is the one create_analytics_tables produces.
C15_BuildersIndependent ==
    /\ pc # "raised"
    /\ \A d \in DOMAIN out1 : out1[d] = Build(d, inp)
    /\ pc = "once" => out2 = out1

\* the five tables were built one by one and then together
C15_Witness ==
    /\ pc = "once"
    /\ DOMAIN inp = EntitySet
    /\ DOMAIN out1 = {DerivedNames[i] : i \in DOMAIN DerivedNames}
    /\ out2["metricas_por_cliente"] # out2["ventas_por_producto"]

----------------------------------------------------------------------------
(* uso_materiales_agregado for any stock and any usage                     *)

MaxUso == 2

\* the materials: stock 5, 0 or not given
MaterialChoices ==
    {[tipo |-> TxtMixed, unidad_medida |-> TxtMixed, cantidad_disponible |-> q] :
        q \in {Txt5, Txt0, Empty}}

\* the usage rows: of material 1 or 2, quantity 5, 2 or 0
UsoChoices ==
    {[id_material |-> m, cantidad_usada |-> q] : m \in {Txt1, Txt2}, q \in {Txt5, Txt2, Txt0}}

InitUso ==
    /\ PipelineIdle
    /\ pc = "raw"
    /\ \E n \in 1..2, m \in 0..MaxUso :
           \E ms \in [1..n -> MaterialChoices], us \in [1..m -> UsoChoices] :
               inp = [e \in EntitySet |->
                        CASE e = "materiales" -> ReadCsv(CsvOf(e, ms))
                          [] e = "uso_materiales" -> ReadCsv(CsvOf(e, us))
                          [] OTHER -> GoodRaw[e]]
    /\ out1 = NoTable
    /\ out2 = NoTable

SpecUso == InitUso /\ [][NextMissing]_vars

\* used / available when the stock is a non-zero number, 0 otherwise
ExpectedRotacion(r) ==
    IF IsNull(r["cantidad_disponible"]) \/ r["cantidad_disponible"].n = 0
    THEN IntCell(0)
    ELSE DivideCell(r["cantidad_total_usada"], r["cantidad_disponible"])

\* C21: in every row of uso_materiales_agregado, tasa_rotacion equals
\* cantidad_total_usada / cantidad_disponible when cantidad_disponible is
\* non-zero, and equals 0 when cantidad_disponible is 0 or missing.
C21_TasaRotacion ==
    pc = "twice" =>
        \A i \in DOMAIN out2["uso_materiales_agregado"].rows :
            LET r == out2["uso_materiales_agregado"].rows[i]
            IN  r["tasa_rotacion"] = ExpectedRotacion(r)

----------------------------------------------------------------------------
(* The contents of the aggregated tables, against the cleaned tables they  *)
(* are built from                                                          *)

\* the non-null values of column c of the rows rs
KeysOf(rs, c) == {rs[i][c] : i \in {j \in DOMAIN rs : ~IsNull(rs[j][c])}}

\* the cells of column c of the rows rs
CellsOf(rs, c) == [i \in DOMAIN rs |-> rs[i][c]]

\* the table t has exactly one row per value of S in its column c
OneRowPer(t, c, S) ==
    /\ Len(t.rows) = Cardinality(S)
    /\ {t.rows[i][c] : i \in DOMAIN t.rows} = S

\* no row of t has the value v in column c
Unmatched(t, c, v) == \A i \in DOMAIN t.rows : t.rows[i][c] # v

\* C23: ventas_por_producto has exactly one row per distinct id_producto of
\* cleaned detalles_orden; cantidad_total and ingresos_totales are the sums
\* of cantidad and subtotal over that product's lines, each line counted
\* once whatever productos and ordenes_produccion contain; num_ordenes is the
\* number of distinct orders containing the product; ticket_promedio is
\* ingresos_totales / num_ordenes.
C23_VentasPorProducto ==
    pc = "twice" =>
        LET d == out1["detalles_orden"].rows
            v == out2["ventas_por_producto"]
        IN  /\ OneRowPer(v, "id_producto", KeysOf(d, "id_producto"))
            /\ \A i \in DOMAIN v.rows :
                   LET r == v.rows[i]
                       lines == SelectSeq(d, LAMBDA l : l["id_producto"] = r["id_producto"])
                   IN  /\ r["cantidad_total"] = SumCells(CellsOf(lines, "cantidad"))
                       /\ r["ingresos_totales"] = SumCells(CellsOf(lines, "subtotal"))
                       /\ r["num_ordenes"] = IntCell(Cardinality(KeysOf(lines, "id_orden")))
                       /\ r["num_ordenes"].n > 0 =>
                              r["ticket_promedio"] =
                                  DivideCell(r["ingresos_totales"], r["num_ordenes"])

\* C24: metricas_por_cliente has exactly one row per customer id having at
\* least one cleaned order; num_ordenes is the number of that customer's
\* orders, ingresos_totales the sum of the subtotals of all lines of those
\* orders (0 for an order without lines), primera_orden and ultima_orden the
\* earliest and latest fecha_orden, ticket_promedio the quotient of the two;
\* a customer id with no row in clientes keeps its row with null name and
\* city.
C24_MetricasPorCliente ==
    pc = "twice" =>
        LET o == out1["ordenes_produccion"].rows
            d == out1["detalles_orden"].rows
            m == out2["metricas_por_cliente"]
        IN  /\ OneRowPer(m, "id_cliente", KeysOf(o, "id_cliente"))
            /\ \A i \in DOMAIN m.rows :
                   LET r == m.rows[i]
                       mine == SelectSeq(o, LAMBDA x : x["id_cliente"] = r["id_cliente"])
                       lines == SelectSeq(d, LAMBDA l : l["id_orden"] \in KeysOf(mine, "id_orden"))
                   IN  /\ r["num_ordenes"] = IntCell(Len(mine))
                       /\ r["ingresos_totales"] = SumCells(CellsOf(lines, "subtotal"))
                       /\ r["primera_orden"] = AggMin(CellsOf(mine, "fecha_orden"))
                       /\ r["ultima_orden"] = AggMax(CellsOf(mine, "fecha_orden"))
                       /\ r["ticket_promedio"] =
                              DivideCell(r["ingresos_totales"], r["num_ordenes"])
                       /\ Unmatched(out1["clientes"], "id_cliente", r["id_cliente"]) =>
                              IsNull(r["nombre_empresa"]) /\ IsNull(r["ciudad"])

\* C25: productividad_empleados has exactly one row per employee id
\* responsible for at least one cleaned order (none for an employee without
\* orders); total_ordenes is the number of orders assigned to that employee,
\* ordenes_completadas the number of them whose estado is exactly
\* "Completado", tasa_completitud their quotient times 100 rounded to 2
\* decimals; an employee id with no row in empleados keeps its row with null
\* name and role.
C25_ProductividadEmpleados ==
    pc = "twice" =>
        LET o == out1["ordenes_produccion"].rows
            p == out2["productividad_empleados"]
        IN  /\ OneRowPer(p, "id_empleado", KeysOf(o, "id_empleado_responsable"))
            /\ \A i \in DOMAIN p.rows :
                   LET r == p.rows[i]
                       mine == SelectSeq(o, LAMBDA x :
                                   x["id_empleado_responsable"] = r["id_empleado"])
                       done == SelectSeq(mine, LAMBDA x : x["estado"] = Str(TxtCompletado))
                   IN  /\ r["total_ordenes"] = IntCell(Len(mine))
                       /\ r["ordenes_completadas"] = IntCell(Len(done))
                       /\ r["tasa_completitud"] = Round2(Num(100 * Len(done), Len(mine)))
                       /\ Unmatched(out1["empleados"], "id_empleado", r["id_empleado"]) =>
                              IsNull(r["nombre"]) /\ IsNull(r["cargo"])

\* C29: in every row of productividad_empleados,
\* 0 <= ordenes_completadas <= total_ordenes and 0 <= tasa_completitud <= 100,
\* for any cleaned orders, those without id_orden included.
C29_CompletadasWithinTotal ==
    pc = "twice" =>
        \A i \in DOMAIN out2["productividad_empleados"].rows :
            LET r == out2["productividad_empleados"].rows[i]
                t == r["tasa_completitud"]
            IN  /\ 0 <= r["ordenes_completadas"].n
                /\ r["ordenes_completadas"].n <= r["total_ordenes"].n
                /\ t.k = "num"
                /\ 0 <= t.n /\ t.n <= 100 * t.d

\* every order line belongs to an order of the cleaned table that has a
\* customer id
LinesAttached ==
    \A i \in DOMAIN out1["detalles_orden"].rows :
        \E j \in DOMAIN out1["ordenes_produccion"].rows :
            LET l == out1["detalles_orden"].rows[i]
                x == out1["ordenes_produccion"].rows[j]
            IN  /\ ~IsNull(l["id_orden"])
                /\ x["id_orden"] = l["id_orden"]
                /\ ~IsNull(x["id_cliente"])

\* C30: revenue is conserved: the sum of ingresos_totales over the rows of
\* ventas_por_producto equals the sum of subtotal over all cleaned order
\* lines, and when every line belongs to an existing order that has a
\* customer id it also equals the sum of ingresos_totales over the rows of
\* metricas_por_cliente.
C30_RevenueConserved ==
    pc = "twice" =>
        LET lines == SumCells(CellsOf(out1["detalles_orden"].rows, "subtotal"))
            ventas == SumCells(CellsOf(out2["ventas_por_producto"].rows, "ingresos_totales"))
            metricas == SumCells(CellsOf(out2["metricas_por_cliente"].rows,
                                         "ingresos_totales"))
        IN  /\ ventas = lines
            /\ LinesAttached => metricas = lines

----------------------------------------------------------------------------
(* References between the tables when the identifiers are texts            *)

MaxRefs == 2

TxtC1 == <<"c", "1">>

TxtSpC1 == <<" ", "c", "1">>

TxtC2Sp == <<"c", "2", " ">>

TxtE1 == <<"e", "1">>

TxtSpE1 == <<" ", "e", "1">>

\* the customer identifiers, with and without surrounding whitespace
RefIds == {TxtC1, TxtSpC1, TxtC2Sp}

\* the orders: of one of the customers, under employee "e1" or " e1"
RefOrderChoices ==
    {[id_cliente |-> c, id_empleado_responsable |-> r,
      fecha_orden |-> TxtDate0101, fecha_completado |-> TxtDate0110,
      estado |-> TxtSpCompletadoSp] : c \in RefIds, r \in {TxtE1, TxtSpE1}}

\* empleados.csv with the employees "e1" and " e1"
RefEmpleados ==
    [i \in 1..2 |-> [id_empleado |-> IF i = 1 THEN TxtE1 ELSE TxtSpE1,
                     nombre |-> TxtMixed, cargo |-> TxtMixed, email |-> TxtMailUpper]]

InitRefs ==
    /\ PipelineIdle
    /\ pc = "raw"
    /\ \E n \in 1..MaxRefs, m \in 1..MaxRefs :
           \E ids \in [1..n -> RefIds], os \in [1..m -> RefOrderChoices] :
               inp = [e \in EntitySet |->
                        CASE e = "clientes" -> ReadCsv(KeyClientesCsv(ids))
                          [] e = "ordenes_produccion" -> ReadCsv(CsvOf(e, os))
                          [] e = "empleados" -> ReadCsv(CsvOf(e, RefEmpleados))
                          [] OTHER -> GoodRaw[e]]
    /\ out1 = NoTable
    /\ out2 = NoTable

SpecRefs == InitRefs /\ [][NextMissing]_vars

\* every row i of table a and row j of table b (of a mapping of tables) that
\* agree on the key in the raw tables agree on it in the cleaned tables
RefsKept(a, ka, b, kb) ==
    \A i \in DOMAIN inp[a].rows, j \in DOMAIN inp[b].rows :
        (~IsNull(inp[a].rows[i][ka]) /\ inp[a].rows[i][ka] = inp[b].rows[j][kb]) =>
            out1[a].rows[i][ka] = out1[b].rows[j][kb]

\* C27: cleaning never changes a key or foreign-key value in a way that
\* breaks a reference: whenever an order's id_cliente (or
\* id_empleado_responsable) equals a customer's id_cliente (an employee's
\* id_empleado) in the raw tables, the same order matches the same customer
\* (employee) in the cleaned tables used by the joins.
C27_ReferencesKept ==
    pc \in {"once", "twice"} =>
        /\ RefsKept("ordenes_produccion", "id_cliente", "clientes", "id_cliente")
        /\ RefsKept("ordenes_produccion", "id_empleado_responsable",
                    "empleados", "id_empleado")

====
